---- MODULE Spec2Model ----
(***************************************************************************)
(* The docx-tool SQL adapter (src/src/sql_parser): a parsed document's      *)
(* tables and cells projected into the rows of the virtual tables "tables"  *)
(* and "cell", and row updates written back into the live document.         *)
(*                                                                          *)
(* docx is the Document the adapter holds (&mut Document).  Every adapter   *)
(* call is one action; call, ret and pre record the call made last, what it *)
(* returned and the document it found; repeated tells that the call is the *)
(* read that was made just before it, made again.                           *)
(*                                                                          *)
(* serde_json values are tagged records (JNull, JStr, JNum, JObj), gluesql  *)
(* Values likewise (VNull, VStr, VU32, VI32), Option is None / Some(v).     *)
(* SHA-256 is taken to be collision free: the digest of a serialisation is  *)
(* modelled by the serialisation itself, wrapped.                           *)
(***************************************************************************)
EXTENDS Integers, Sequences, FiniteSets, TLC

\* TLC keeps the fields of a record in the order in which it first met their
\* names, and sorts a record into that order, in place, when it first compares
\* it.  FieldOrder names every field of the model's records in the order the
\* constructors below write them: a record is built sorted, and no worker
\* re-sorts a value that another worker reads.
FieldOrder ==
  [some |-> 1, t |-> 2, s |-> 3, n |-> 4, b |-> 5, a |-> 6, o |-> 7,
   ok |-> 8, sha256 |-> 9, border_type |-> 10, borderType |-> 11,
   size |-> 12, color |-> 13, position |-> 14, space |-> 15, cells |-> 16,
   hash |-> 17, row_number |-> 18, column_number |-> 19,
   table_hash |-> 20, content |-> 21, width |-> 22, width_type |-> 23,
   justification |-> 24, borders |-> 25, widthType |-> 26,
   borders_top |-> 27, borders_left |-> 28, borders_bottom |-> 29,
   borders_right |-> 30, borders_inside_h |-> 31, borders_inside_v |-> 32,
   name |-> 33, data_type |-> 34, nullable |-> 35, docx |-> 36,
   ret |-> 37, kind |-> 38, children |-> 39, text |-> 40, op |-> 41,
   table_name |-> 42, key |-> 43, v |-> 44, column_defs |-> 45,
   keys |-> 46, rows |-> 47, grid |-> 48, property |-> 49,
   hasNumbering |-> 50, has_numbering |-> 51, type_ |-> 52,
   description |-> 53, format |-> 54, example |-> 55, items |-> 56,
   original_ref |-> 57, properties |-> 58, desc |-> 59, used_name |-> 60,
   pc |-> 61, idx |-> 62, ps |-> 63, value |-> 64]

VARIABLES docx, call, ret, pre, repeated, nops,
          definitions, func, stack, returned, pruned

vars == <<docx, call, ret, pre, repeated, nops,
          definitions, func, stack, returned, pruned>>

\* The variables of the SQL adapter and those of the swagger expansion.
dbvars == <<docx, call, ret, pre, repeated, nops>>
swvars == <<definitions, func, stack, returned, pruned>>

\* The bound of the model: the calls on &mut Document one behaviour makes.
MaxOps == 1

-----------------------------------------------------------------------------
(* Option, serde_json::Value, gluesql Value and Key. *)

None == [some |-> FALSE]
Some(v) == [some |-> TRUE, v |-> v]

JNull == [t |-> "null"]
JStr(s) == [t |-> "str", s |-> s]
JNum(n) == [t |-> "num", n |-> n]
JBool(b) == [t |-> "bool", b |-> b]
JArr(a) == [t |-> "arr", a |-> a]
JObj(o) == [t |-> "obj", o |-> o]

\* serde_json Value::get on an Option chain: None unless an object with the key.
get(opt, k) ==
  IF opt.some /\ opt.v.t = "obj" /\ k \in DOMAIN opt.v.o THEN Some(opt.v.o[k]) ELSE None

as_str(opt) == IF opt.some /\ opt.v.t = "str" THEN Some(opt.v.s) ELSE None

as_u64(opt) == IF opt.some /\ opt.v.t = "num" THEN Some(opt.v.n) ELSE None

unwrap_or(opt, d) == IF opt.some THEN opt.v ELSE d

and_then(opt, F(_)) == IF opt.some THEN F(opt.v) ELSE None

Ok(v) == [ok |-> TRUE, v |-> v]
Err(msg) == [ok |-> FALSE, v |-> msg]

VNull == [t |-> "Null"]
VStr(s) == [t |-> "Str", v |-> s]
VU32(n) == [t |-> "U32", v |-> n]
VI32(n) == [t |-> "I32", v |-> n]

KeyStr(h) == [key |-> "Str", v |-> h]

\* Sha256Hex with a digest that takes in more than the serialisation.
Sha256Hex_salted(json) == [sha256 |-> <<json, repeated>>]

\* hex::encode(Sha256::digest(json)), collision free.
Sha256Hex(json) == [sha256 |-> json]

-----------------------------------------------------------------------------
(* docx_rs enumerations: variant, serialised name, FromStr. *)

\* WidthType serialises in camelCase.
WidthTypeName(wt) ==
  CASE wt = "Dxa" -> "dxa"
    [] wt = "Auto" -> "auto"
    [] wt = "Pct" -> "pct"
    [] wt = "Nil" -> "nil"
    [] OTHER -> "unsupported"

\* WidthType::from_str(s).ok(): a name it does not know is Unsupported.
WidthType_from_str(s) ==
  CASE s = "dxa" -> Some("Dxa")
    [] s = "auto" -> Some("Auto")
    [] s = "pct" -> Some("Pct")
    [] s = "nil" -> Some("Nil")
    [] OTHER -> Some("Unsupported")

\* TableAlignmentType_from_str that takes any other text for "center".
TableAlignmentType_from_str_lenient(s) ==
  CASE s = "left" -> Some("Left")
    [] s = "right" -> Some("Right")
    [] OTHER -> Some("Center")

\* TableAlignmentType::from_str(s).ok(): an error for any other text.
TableAlignmentType_from_str(s) ==
  CASE s = "left" -> Some("Left")
    [] s = "center" -> Some("Center")
    [] s = "right" -> Some("Right")
    [] OTHER -> None

\* TableAlignmentType's Display, which align() stores in the Justification.
TableAlignmentName(a) ==
  CASE a = "Left" -> "left"
    [] a = "Center" -> "center"
    [] OTHER -> "right"

\* BorderType::from_str(s).ok(): a name it does not know is Single.
BorderType_from_str(s) ==
  CASE s = "dashed" -> Some("Dashed")
    [] s = "double" -> Some("Double")
    [] s = "nil" -> Some("Nil")
    [] OTHER -> Some("Single")

BorderTypeName(bt) ==
  CASE bt = "Dashed" -> "dashed"
    [] bt = "Double" -> "double"
    [] bt = "Nil" -> "nil"
    [] OTHER -> "single"

-----------------------------------------------------------------------------
(* docx_rs style bags and their builders. *)

Positions == <<"top", "left", "bottom", "right", "insideH", "insideV">>

PositionSet == {Positions[i] : i \in DOMAIN Positions}

\* TableBorder::new(position) and TableCellBorder::new(position).
NewBorder(position) ==
  [border_type |-> "Single", size |-> 2, color |-> "000000",
   position |-> position, space |-> 0]

\* TableBorders::default() and TableCellBorders::default(): all six edges set.
DefaultBorders == [p \in PositionSet |-> Some(NewBorder(p))]

\* TableBorders::with_empty(): no edge set.
EmptyBorders == [p \in PositionSet |-> None]

\* TableBorders::set / TableCellBorders::set: the edge at the border's position.
BordersSet(borders, border) == [borders EXCEPT ![border.position] = Some(border)]

\* TableProperty::default().
DefaultTableProperty ==
  [width |-> [width |-> 0, width_type |-> "Auto"],
   justification |-> "left",
   borders |-> DefaultBorders]

\* TableCellProperty::default().
DefaultCellProperty == [width |-> None, borders |-> None]

\* TableProperty::width(v, t).
TableProperty_width(property, v, t) ==
  [property EXCEPT !.width = [width |-> v, width_type |-> t]]

\* TableProperty::align(v).
TableProperty_align(property, a) ==
  [property EXCEPT !.justification = TableAlignmentName(a)]

\* TableProperty::set_border(border).
TableProperty_set_border(property, border) ==
  [property EXCEPT !.borders = BordersSet(property.borders, border)]

\* TableCellProperty::width(v, t).
CellProperty_width(property, v, t) ==
  [property EXCEPT !.width = Some([width |-> v, width_type |-> t])]

\* TableCellProperty::set_border(border): borders.unwrap_or_default().set(border).
CellProperty_set_border(property, border) ==
  [property EXCEPT
     !.borders = Some(BordersSet(unwrap_or(property.borders, DefaultBorders), border))]

-----------------------------------------------------------------------------
(* Serialisation (serde, camelCase field names). *)

Border_json(b) ==
  JObj([borderType |-> JStr(BorderTypeName(b.border_type)),
        size |-> JNum(b.size),
        color |-> JStr(b.color),
        position |-> JStr(b.position),
        space |-> JNum(b.space)])

Borders_json(borders) ==
  JObj([p \in PositionSet |->
          IF borders[p].some THEN Border_json(borders[p].v) ELSE JNull])

Width_json(w) ==
  JObj([width |-> JNum(w.width), widthType |-> JStr(WidthTypeName(w.width_type))])

\* serde_json::to_value(&t_box.property)
TableProperty_json(property) ==
  JObj([width |-> Width_json(property.width),
        justification |-> JStr(property.justification),
        borders |-> Borders_json(property.borders)])

\* serde_json::to_value(&table_cell.property)
CellProperty_json(property) ==
  JObj([width |-> IF property.width.some THEN Width_json(property.width.v) ELSE JNull,
        borders |-> IF property.borders.some
                      THEN Borders_json(property.borders.v) ELSE JNull])

\* Cell_json without the property of the cell.
Cell_json_no_property(cell) ==
  JObj([children |-> JArr(cell.children),
        hasNumbering |-> JBool(cell.has_numbering)])

\* serde_json::to_string(table_cell); the children are serialised as they are.
Cell_json(cell) ==
  JObj([children |-> JArr(cell.children),
        property |-> CellProperty_json(cell.property),
        hasNumbering |-> JBool(cell.has_numbering)])

Row_json(row) ==
  JObj([cells |-> JArr([i \in DOMAIN row.cells |-> Cell_json(row.cells[i])])])

\* Table_json with the property left out of the serialisation.
Table_json_no_property(t) ==
  JObj([rows |-> JArr([i \in DOMAIN t.rows |-> Row_json(t.rows[i])]),
        grid |-> JArr(t.grid),
        hasNumbering |-> JBool(t.has_numbering)])

\* serde_json::to_string(t_box)
Table_json(t) ==
  JObj([rows |-> JArr([i \in DOMAIN t.rows |-> Row_json(t.rows[i])]),
        grid |-> JArr(t.grid),
        property |-> TableProperty_json(t.property),
        hasNumbering |-> JBool(t.has_numbering)])

TableHash(t) == Sha256Hex(Table_json(t))

CellHash(cell) == Sha256Hex(Cell_json(cell))

-----------------------------------------------------------------------------
(* Projection: scan_data and fetch_data. *)

RECURSIVE Flatten(_)
Flatten(seqs) == IF seqs = <<>> THEN <<>> ELSE Head(seqs) \o Flatten(Tail(seqs))

RECURSIVE Join(_)
Join(strs) == IF strs = <<>> THEN "" ELSE Head(strs) \o Join(Tail(strs))

IsTable(doc_child) == doc_child.kind = "Table"

\* The top-level tables of the document, in document order.
TablesOf(d) == SelectSeq(d.children, IsTable)

WidthColumn(pv) ==
  VU32(unwrap_or(as_u64(get(get(pv, "width"), "width")), 0))

WidthTypeColumn(pv) ==
  VStr(unwrap_or(as_str(get(get(pv, "width"), "widthType")), ""))

JustificationColumn(pv) ==
  VStr(unwrap_or(as_str(get(pv, "justification")), ""))

\* BorderColumn that shows a border that is present as a text.
BorderColumn_as_text(pv, position) ==
  LET border == get(get(pv, "borders"), position)
  IN IF border.some /\ border.v.t = "obj" THEN VStr("{}") ELSE VNull

\* borders.<position> read with as_str: a string value, else null.
BorderColumn(pv, position) ==
  LET text == as_str(get(get(pv, "borders"), position))
  IN IF text.some THEN VStr(text.v) ELSE VNull

\* ColumnNumber with the count of rows for the count of cells.
ColumnNumber_of_rows(t) == Len(t.rows)

\* column_number: the cell count of rows.get(0), else 0.
ColumnNumber(t) == IF Len(t.rows) > 0 THEN Len(t.rows[1].cells) ELSE 0

\* The row Tables::scan_data builds for one table.
Tables_row(t) ==
  LET pv == Some(TableProperty_json(t.property))
  IN [hash |-> VStr(TableHash(t)),
      row_number |-> VI32(Len(t.rows)),
      column_number |-> VU32(ColumnNumber(t)),
      width |-> WidthColumn(pv),
      width_type |-> WidthTypeColumn(pv),
      justification |-> JustificationColumn(pv),
      borders_top |-> BorderColumn(pv, "top"),
      borders_left |-> BorderColumn(pv, "left"),
      borders_bottom |-> BorderColumn(pv, "bottom"),
      borders_right |-> BorderColumn(pv, "right"),
      borders_inside_h |-> BorderColumn(pv, "insideH"),
      borders_inside_v |-> BorderColumn(pv, "insideV")]

\* Tables::scan_data: one (key, row) per top-level table.
Tables_scan_data(d) ==
  [i \in DOMAIN TablesOf(d) |->
     <<KeyStr(TableHash(TablesOf(d)[i])), Tables_row(TablesOf(d)[i])>>]

\* RunChildText with a blank for a tab.
RunChildText_tab(run_child) ==
  IF run_child.kind = "Text" THEN run_child.text
  ELSE IF run_child.kind = "Tab" THEN " " ELSE ""

\* The text of one run child: a text run's text, else "".
RunChildText(run_child) ==
  IF run_child.kind = "Text" THEN run_child.text ELSE ""

\* The run children of a paragraph child: a run's children, else none.
ParagraphChildRuns(paragraph_child) ==
  IF paragraph_child.kind = "Run" THEN paragraph_child.children ELSE <<>>

\* The paragraph children of a cell child: a paragraph's children, else none.
CellContentChildren(content) ==
  IF content.kind = "Paragraph" THEN content.children ELSE <<>>

\* content: the texts of the cell's runs, joined with no separator.
CellContent(cell) ==
  LET paragraph_children ==
        Flatten([i \in DOMAIN cell.children |-> CellContentChildren(cell.children[i])])
      run_children ==
        Flatten([i \in DOMAIN paragraph_children |->
                   ParagraphChildRuns(paragraph_children[i])])
  IN Join([i \in DOMAIN run_children |-> RunChildText(run_children[i])])

\* The row Cell::scan_data builds for one cell of table t.
Cell_row(t, cell) ==
  LET pv == Some(CellProperty_json(cell.property))
  IN [hash |-> VStr(CellHash(cell)),
      table_hash |-> VStr(TableHash(t)),
      content |-> VStr(CellContent(cell)),
      width |-> WidthColumn(pv),
      width_type |-> WidthTypeColumn(pv),
      borders_top |-> BorderColumn(pv, "top"),
      borders_left |-> BorderColumn(pv, "left"),
      borders_bottom |-> BorderColumn(pv, "bottom"),
      borders_right |-> BorderColumn(pv, "right"),
      borders_inside_h |-> BorderColumn(pv, "insideH"),
      borders_inside_v |-> BorderColumn(pv, "insideV")]

\* The cells of one table, row by row.
CellsOf(t) == Flatten([r \in DOMAIN t.rows |-> t.rows[r].cells])

\* Cell_scan_data with the hash of the first table for every table_hash.
Cell_scan_data_first_table(d) ==
  Flatten([i \in DOMAIN TablesOf(d) |->
     [c \in DOMAIN CellsOf(TablesOf(d)[i]) |->
        <<KeyStr(CellHash(CellsOf(TablesOf(d)[i])[c])),
          Cell_row(TablesOf(d)[1], CellsOf(TablesOf(d)[i])[c])>>]])

\* Cell::scan_data: one (key, row) per cell of every top-level table.
Cell_scan_data(d) ==
  Flatten([i \in DOMAIN TablesOf(d) |->
     [c \in DOMAIN CellsOf(TablesOf(d)[i]) |->
        <<KeyStr(CellHash(CellsOf(TablesOf(d)[i])[c])),
          Cell_row(TablesOf(d)[i], CellsOf(TablesOf(d)[i])[c])>>]])

\* The linear search of fetch_data: the row of the first pair with the key.
FirstWithKey(pairs, key) ==
  LET hits == {i \in DOMAIN pairs : pairs[i][1] = key}
  IN IF hits = {} THEN None
     ELSE Some(pairs[CHOOSE i \in hits : \A j \in hits : i <= j][2])

Tables_fetch_data(d, key) == FirstWithKey(Tables_scan_data(d), key)

Cell_fetch_data(d, key) == FirstWithKey(Cell_scan_data(d), key)

\* DocxDb::scan_data: the table name is not looked at.
DocxDb_scan_data(d, table_name) ==
  [i \in DOMAIN TablesOf(d) |->
     <<KeyStr(TableHash(TablesOf(d)[i])), Tables_row(TablesOf(d)[i])>>]

\* DocxDb_fetch_data with no look at the table name.
DocxDb_fetch_data_any_name(d, table_name, key) ==
  FirstWithKey(DocxDb_scan_data(d, table_name), key)

\* DocxDb::fetch_data: no row for any name but "tables".
DocxDb_fetch_data(d, table_name, key) ==
  IF table_name # "tables" THEN None
  ELSE FirstWithKey(DocxDb_scan_data(d, table_name), key)

-----------------------------------------------------------------------------
(* The schema catalog: fetch_schema and fetch_all_schemas. *)

ColumnDef(name, data_type, nullable) ==
  [name |-> name, data_type |-> data_type, nullable |-> nullable]

Schema(table_name, column_defs) ==
  [table_name |-> table_name, column_defs |-> column_defs]

\* The six border columns, as every schema declares them.
BorderColumnDefs ==
  <<ColumnDef("borders_top", "Text", TRUE), ColumnDef("borders_left", "Text", TRUE),
    ColumnDef("borders_bottom", "Text", TRUE), ColumnDef("borders_right", "Text", TRUE),
    ColumnDef("borders_inside_h", "Text", TRUE),
    ColumnDef("borders_inside_v", "Text", TRUE)>>

\* Tables::fetch_all_schemas: the schema of "tables".
Tables_fetch_all_schemas ==
  <<Schema("tables",
           <<ColumnDef("hash", "Text", FALSE), ColumnDef("row_number", "Uint32", FALSE),
             ColumnDef("column_number", "Uint32", FALSE),
             ColumnDef("width", "Uint32", TRUE), ColumnDef("width_type", "Text", TRUE),
             ColumnDef("justification", "Text", TRUE)>>
           \o BorderColumnDefs \o <<ColumnDef("json_content", "Text", FALSE)>>)>>

\* Cell::fetch_all_schemas: the schema of "cell".
Cell_fetch_all_schemas ==
  <<Schema("cell",
           <<ColumnDef("hash", "Text", FALSE), ColumnDef("table_hash", "Text", FALSE),
             ColumnDef("content", "Text", TRUE),
             ColumnDef("width", "Uint32", TRUE), ColumnDef("width_type", "Text", TRUE)>>
           \o BorderColumnDefs \o <<ColumnDef("json_content", "Text", FALSE)>>)>>

\* DocxDb::fetch_all_schemas: one schema, that of "tables".
DocxDb_fetch_all_schemas ==
  <<Schema("tables",
           <<ColumnDef("hash", "Text", FALSE), ColumnDef("row_number", "Uint32", FALSE),
             ColumnDef("column_number", "Uint32", FALSE),
             ColumnDef("width", "Uint32", TRUE), ColumnDef("width_type", "Text", TRUE),
             ColumnDef("justification", "Text", TRUE)>>
           \o BorderColumnDefs \o <<ColumnDef("json_content", "Text", FALSE)>>)>>

\* DocxDb::fetch_schema: the first schema of fetch_all_schemas with the name.
DocxDb_fetch_schema(table_name) ==
  LET hits == {i \in DOMAIN DocxDb_fetch_all_schemas :
                 DocxDb_fetch_all_schemas[i].table_name = table_name}
  IN IF hits = {} THEN None
     ELSE Some(DocxDb_fetch_all_schemas[CHOOSE i \in hits : \A j \in hits : i <= j])

-----------------------------------------------------------------------------
(* Border texts and their parse. *)

BorderTextA == "{\"size\":50,\"color\":\"ff0000\"}"
BorderTextB == "{\"borderType\":\"dashed\",\"size\":\"8\"}"
BorderTextBad == "size=50"
BorderTextArr == "[50]"

\* serde_json::from_str on the texts the model feeds it: Err for a text that
\* is not JSON.
serde_json_from_str(text) ==
  CASE text = BorderTextA -> Some(JObj([size |-> JNum(50), color |-> JStr("ff0000")]))
    [] text = BorderTextB -> Some(JObj([borderType |-> JStr("dashed"), size |-> JStr("8")]))
    [] text = BorderTextArr -> Some(JArr(<<JNum(50)>>))
    [] OTHER -> None

\* The border an update builds from a column text: a new border of the
\* position, with the color, size and borderType the JSON has.
BorderFromText(text, position) ==
  LET value == Some(unwrap_or(serde_json_from_str(text), JNull))
      color == as_str(get(value, "color"))
      size == as_u64(get(value, "size"))
      border_type == and_then(as_str(get(value, "borderType")), BorderType_from_str)
      b0 == NewBorder(position)
      b1 == IF color.some THEN [b0 EXCEPT !.color = color.v] ELSE b0
      b2 == IF size.some THEN [b1 EXCEPT !.size = size.v] ELSE b1
  IN IF border_type.some THEN [b2 EXCEPT !.border_type = border_type.v] ELSE b2

BorderColumns ==
  [borders_top |-> "top", borders_left |-> "left", borders_bottom |-> "bottom",
   borders_right |-> "right", borders_inside_h |-> "insideH",
   borders_inside_v |-> "insideV"]

-----------------------------------------------------------------------------
(* Mutation: insert_data.  A row of the batch is its column map in the      *)
(* order the map is iterated: a sequence of <<column, value>>.              *)

\* PreWidth read at the key of the width type.
PreWidth_wrong_key(pv) == unwrap_or(as_u64(get(get(pv, "width"), "widthType")), 0)

\* pre_width: the width the bag serialises, else 0.
PreWidth(pv) == unwrap_or(as_u64(get(get(pv, "width"), "width")), 0)

\* PreWidthType that never reads the bag.
PreWidthType_unread(pv) == "Unsupported"

\* pre_width_type: the width type the bag serialises, parsed, else Unsupported.
PreWidthType(pv) ==
  unwrap_or(and_then(as_str(get(get(pv, "width"), "widthType")), WidthType_from_str),
            "Unsupported")

\* One column of a matching row applied to a table (Tables::insert_data).
Tables_apply_kv(property, kv) ==
  LET pv == Some(TableProperty_json(property))
  IN CASE kv[1] = "width" /\ kv[2].t = "U32" ->
            TableProperty_width(property, kv[2].v, PreWidthType(pv))
       [] kv[1] = "width_type" /\ kv[2].t = "Str" ->
            TableProperty_width(property, PreWidth(pv),
                                unwrap_or(WidthType_from_str(kv[2].v), "Auto"))
       [] kv[1] = "justification" /\ kv[2].t = "Str"
            /\ TableAlignmentType_from_str(kv[2].v).some ->
            TableProperty_align(property, TableAlignmentType_from_str(kv[2].v).v)
       [] kv[1] \in DOMAIN BorderColumns /\ kv[2].t = "Str" ->
            TableProperty_set_border(property,
                                     BorderFromText(kv[2].v, BorderColumns[kv[1]]))
       [] OTHER -> property

\* One column of a matching row applied to a table (DocxDb::insert_data):
\* width, width_type and justification only.
DocxDb_apply_kv(property, kv) ==
  LET pv == Some(TableProperty_json(property))
  IN CASE kv[1] = "width" /\ kv[2].t = "U32" ->
            TableProperty_width(property, kv[2].v, PreWidthType(pv))
       [] kv[1] = "width_type" /\ kv[2].t = "Str" ->
            TableProperty_width(property, PreWidth(pv),
                                unwrap_or(WidthType_from_str(kv[2].v), "Auto"))
       [] kv[1] = "justification" /\ kv[2].t = "Str"
            /\ TableAlignmentType_from_str(kv[2].v).some ->
            TableProperty_align(property, TableAlignmentType_from_str(kv[2].v).v)
       [] OTHER -> property

\* Cell_set_border that keeps the size the cell had at the position when the
\* text gives none.
Cell_set_border_merged(property, border_value, border_position) ==
  LET new == BorderFromText(border_value, border_position)
      value == Some(unwrap_or(serde_json_from_str(border_value), JNull))
      kept == property.borders.some /\ property.borders.v[border_position].some
              /\ ~as_u64(get(value, "size")).some
  IN CellProperty_set_border(property,
       IF kept THEN [new EXCEPT !.size = property.borders.v[border_position].v.size]
       ELSE new)

\* Cell::set_border
Cell_set_border(property, border_value, border_position) ==
  CellProperty_set_border(property, BorderFromText(border_value, border_position))

\* One column of a matching row applied to a cell (Cell::insert_data).
Cell_apply_kv(property, kv) ==
  LET pv == Some(CellProperty_json(property))
  IN CASE kv[1] = "width" /\ kv[2].t = "U32" ->
            CellProperty_width(property, kv[2].v, PreWidthType(pv))
       [] kv[1] = "width_type" /\ kv[2].t = "Str" ->
            CellProperty_width(property, PreWidth(pv),
                               unwrap_or(WidthType_from_str(kv[2].v), "Auto"))
       [] kv[1] \in DOMAIN BorderColumns /\ kv[2].t = "Str" ->
            Cell_set_border(property, kv[2].v, BorderColumns[kv[1]])
       [] OTHER -> property

RECURSIVE Tables_apply_row(_, _)
Tables_apply_row(property, kvs) ==
  IF kvs = <<>> THEN property
  ELSE Tables_apply_row(Tables_apply_kv(property, Head(kvs)), Tail(kvs))

RECURSIVE DocxDb_apply_row(_, _)
DocxDb_apply_row(property, kvs) ==
  IF kvs = <<>> THEN property
  ELSE DocxDb_apply_row(DocxDb_apply_kv(property, Head(kvs)), Tail(kvs))

RECURSIVE Cell_apply_row(_, _)
Cell_apply_row(property, kvs) ==
  IF kvs = <<>> THEN property
  ELSE Cell_apply_row(Cell_apply_kv(property, Head(kvs)), Tail(kvs))

\* Tables_apply_rows with every row applied, whatever its key.
RECURSIVE Tables_apply_rows_any_key(_, _, _)
Tables_apply_rows_any_key(property, hash_key, rows) ==
  IF rows = <<>> THEN property
  ELSE Tables_apply_rows_any_key(Tables_apply_row(property, Head(rows)[2]),
                                 hash_key, Tail(rows))

\* The rows of the batch whose key is hash_key, applied in batch order; the
\* key was computed once, before the first row.
RECURSIVE Tables_apply_rows(_, _, _)
Tables_apply_rows(property, hash_key, rows) ==
  IF rows = <<>> THEN property
  ELSE Tables_apply_rows(
         IF Head(rows)[1] = hash_key
           THEN Tables_apply_row(property, Head(rows)[2]) ELSE property,
         hash_key, Tail(rows))

RECURSIVE DocxDb_apply_rows(_, _, _)
DocxDb_apply_rows(property, hash_key, rows) ==
  IF rows = <<>> THEN property
  ELSE DocxDb_apply_rows(
         IF Head(rows)[1] = hash_key
           THEN DocxDb_apply_row(property, Head(rows)[2]) ELSE property,
         hash_key, Tail(rows))

RECURSIVE Cell_apply_rows(_, _, _)
Cell_apply_rows(property, hash_key, rows) ==
  IF rows = <<>> THEN property
  ELSE Cell_apply_rows(
         IF Head(rows)[1] = hash_key
           THEN Cell_apply_row(property, Head(rows)[2]) ELSE property,
         hash_key, Tail(rows))

\* Tables::insert_data: every top-level table, keyed by its hash at the walk.
Tables_insert_data(d, rows) ==
  [docx |-> [d EXCEPT !.children =
               [i \in DOMAIN d.children |->
                  IF IsTable(d.children[i])
                    THEN [d.children[i] EXCEPT !.property =
                            Tables_apply_rows(d.children[i].property,
                                              KeyStr(TableHash(d.children[i])), rows)]
                    ELSE d.children[i]]],
   ret |-> Ok("unit")]

\* Cell_insert_cell that also empties a cell whose key is in the batch.
Cell_insert_cell_clearing(cell, rows) ==
  [cell EXCEPT
     !.property = Cell_apply_rows(cell.property, KeyStr(CellHash(cell)), rows),
     !.children = IF \E n \in DOMAIN rows : rows[n][1] = KeyStr(CellHash(cell))
                    THEN <<>> ELSE cell.children]

\* The cell the walk of Cell::insert_data leaves behind.
Cell_insert_cell(cell, rows) ==
  [cell EXCEPT !.property =
     Cell_apply_rows(cell.property, KeyStr(CellHash(cell)), rows)]

\* Cell::insert_data: every cell of every top-level table, keyed by its hash
\* at the walk.
Cell_insert_data(d, rows) ==
  [docx |-> [d EXCEPT !.children =
               [i \in DOMAIN d.children |->
                  IF IsTable(d.children[i])
                    THEN [d.children[i] EXCEPT !.rows =
                            [r \in DOMAIN d.children[i].rows |->
                               [d.children[i].rows[r] EXCEPT !.cells =
                                  [c \in DOMAIN d.children[i].rows[r].cells |->
                                     Cell_insert_cell(d.children[i].rows[r].cells[c],
                                                      rows)]]]]
                    ELSE d.children[i]]],
   ret |-> Ok("unit")]

\* DocxDb_insert_data with no look at the table name.
DocxDb_insert_data_any_name(d, table_name, rows) ==
  [docx |-> [d EXCEPT !.children =
               [i \in DOMAIN d.children |->
                  IF IsTable(d.children[i])
                    THEN [d.children[i] EXCEPT !.property =
                            DocxDb_apply_rows(d.children[i].property,
                                              KeyStr(TableHash(d.children[i])), rows)]
                    ELSE d.children[i]]],
   ret |-> Ok("unit")]

\* DocxDb::insert_data: ok and nothing done for any name but "tables".
DocxDb_insert_data(d, table_name, rows) ==
  IF table_name # "tables" THEN [docx |-> d, ret |-> Ok("unit")]
  ELSE
  [docx |-> [d EXCEPT !.children =
               [i \in DOMAIN d.children |->
                  IF IsTable(d.children[i])
                    THEN [d.children[i] EXCEPT !.property =
                            DocxDb_apply_rows(d.children[i].property,
                                              KeyStr(TableHash(d.children[i])), rows)]
                    ELSE d.children[i]]],
   ret |-> Ok("unit")]

\* DocxDb_delete_data that takes the tables with the keys out of the document.
DocxDb_delete_data_applied(d, table_name, keys) ==
  [docx |-> [d EXCEPT !.children =
               SelectSeq(d.children,
                         LAMBDA c : ~(IsTable(c) /\ \E n \in DOMAIN keys :
                                                     keys[n] = KeyStr(TableHash(c))))],
   ret |-> Ok("unit")]

\* DocxDb::delete_data: not supported.
DocxDb_delete_data(d, table_name, keys) ==
  [docx |-> d, ret |-> Err("[Storage] StoreMut::delete_data is not supported")]

\* DocxDb::insert_schema: not supported.
DocxDb_insert_schema(d, schema) ==
  [docx |-> d, ret |-> Err("[Storage] StoreMut::insert_schema is not supported")]

\* DocxDb::delete_schema: not supported.
DocxDb_delete_schema(d, table_name) ==
  [docx |-> d, ret |-> Err("[Storage] StoreMut::delete_schema is not supported")]

\* DocxDb_append_data that takes the rows and says ok.
DocxDb_append_data_accepted(d, table_name, rows) ==
  [docx |-> d, ret |-> Ok("unit")]

\* DocxDb::append_data: not supported.
DocxDb_append_data(d, table_name, rows) ==
  [docx |-> d, ret |-> Err("[Storage] StoreMut::append_data is not supported")]


-----------------------------------------------------------------------------
(* Documents. *)

Text(s) == [kind |-> "Text", text |-> s]
Tab == [kind |-> "Tab"]
Run(children) == [kind |-> "Run", children |-> children]
BookmarkEnd == [kind |-> "BookmarkEnd"]
Paragraph(children) == [kind |-> "Paragraph", children |-> children]
NestedTable == [kind |-> "Table"]

TableCell(children, property) ==
  [children |-> children, property |-> property, has_numbering |-> FALSE]

TableRow(cells) == [cells |-> cells]

Table(rows, property) ==
  [kind |-> "Table", rows |-> rows, grid |-> <<>>, property |-> property,
   has_numbering |-> FALSE]

Plain(s) == TableCell(<<Paragraph(<<Run(<<Text(s)>>)>>)>>, DefaultCellProperty)

\* A paragraph, then a 1x1 table whose cell reads "hello".
DocHello ==
  [children |-> <<Paragraph(<<Run(<<Text("intro")>>)>>),
                  Table(<<TableRow(<<Plain("hello")>>)>>, DefaultTableProperty)>>]

StyledCellProperty ==
  [width |-> Some([width |-> 30, width_type |-> "Dxa"]),
   borders |-> Some([EmptyBorders EXCEPT
                       !["left"] = Some([NewBorder("left") EXCEPT !.size = 4])])]

StyledTableProperty ==
  [width |-> [width |-> 5000, width_type |-> "Pct"],
   justification |-> "center",
   borders |-> [DefaultBorders EXCEPT !["top"] = None]]

\* One 2x3 table: runs "foo","bar" in one paragraph; a tab and a bookmark
\* between texts; a nested table and two paragraphs; two equal styled cells;
\* an empty cell.
Doc2x3 ==
  [children |->
     <<Table(<<TableRow(<<TableCell(<<Paragraph(<<Run(<<Text("foo")>>),
                                                  Run(<<Text("bar")>>)>>)>>,
                                    DefaultCellProperty),
                          TableCell(<<Paragraph(<<Run(<<Text("a"), Tab, Text("b")>>),
                                                  BookmarkEnd>>)>>,
                                    DefaultCellProperty),
                          TableCell(<<NestedTable,
                                      Paragraph(<<Run(<<Text("x")>>)>>),
                                      Paragraph(<<Run(<<Text("y")>>)>>)>>,
                                    DefaultCellProperty)>>),
               TableRow(<<TableCell(<<Paragraph(<<Run(<<Text("same")>>)>>)>>,
                                    StyledCellProperty),
                          TableCell(<<Paragraph(<<Run(<<Text("same")>>)>>)>>,
                                    StyledCellProperty),
                          TableCell(<<>>, DefaultCellProperty)>>)>>,
             StyledTableProperty)>>]

\* A table with no row, a paragraph, and the same table twice: two cells in
\* its first row, one in its second, all equal.
DocTwin ==
  [children |->
     <<Table(<<>>, DefaultTableProperty),
       Paragraph(<<>>),
       Table(<<TableRow(<<Plain("a"), Plain("a")>>), TableRow(<<Plain("a")>>)>>,
             DefaultTableProperty),
       Table(<<TableRow(<<Plain("a"), Plain("a")>>), TableRow(<<Plain("a")>>)>>,
             DefaultTableProperty)>>]

Documents == {DocHello, Doc2x3, DocTwin}

-----------------------------------------------------------------------------
(* The inputs of the calls. *)

TableNames == {"tables", "cell", "x"}

\* The columns of a row of "tables" and of a row of "cell", in the order the
\* scan inserts them into the row's map.
TablesColumns ==
  <<"hash", "row_number", "column_number", "width", "width_type", "justification",
    "borders_top", "borders_left", "borders_bottom", "borders_right",
    "borders_inside_h", "borders_inside_v">>

CellColumns ==
  <<"hash", "table_hash", "content", "width", "width_type",
    "borders_top", "borders_left", "borders_bottom", "borders_right",
    "borders_inside_h", "borders_inside_v">>

\* A row a scan built, handed back as an update row: DataRow::Map(hm), with
\* every column of the row.
RowAsUpdate(row, columns) == [i \in DOMAIN columns |-> <<columns[i], row[columns[i]]>>]

\* An update row with no style column: the columns insert_data has no branch
\* for.
IgnoredRow ==
  <<<<"hash", VStr(Sha256Hex(JNull))>>, <<"table_hash", VStr(Sha256Hex(JNull))>>,
    <<"row_number", VI32(9)>>, <<"column_number", VU32(9)>>,
    <<"content", VStr("changed")>>, <<"json_content", VStr("{}")>>>>

\* Update rows: width and width_type together, in either order of the map,
\* and each alone; each border column alone; a border text that is no JSON,
\* one that is no JSON object and one with a field of the wrong type; a
\* justification and a text that is none; a width with a border; a row
\* with no style column.
UpdateRows ==
  {<<<<"width", VU32(100)>>, <<"width_type", VStr("dxa")>>>>,
   <<<<"width_type", VStr("dxa")>>, <<"width", VU32(100)>>>>,
   <<<<"width", VU32(7)>>, <<"width_type", VStr("pct")>>>>,
   <<<<"width", VU32(7)>>>>,
   <<<<"width_type", VStr("pct")>>>>,
   <<<<"justification", VStr("right")>>>>,
   <<<<"justification", VStr("middle")>>>>,
   <<<<"borders_top", VStr(BorderTextBad)>>>>,
   <<<<"borders_left", VStr(BorderTextArr)>>>>,
   <<<<"borders_left", VStr(BorderTextB)>>>>,
   <<<<"width", VU32(100)>>, <<"borders_top", VStr(BorderTextA)>>>>,
   <<<<"width", VU32(7)>>, <<"borders_top", VStr(BorderTextB)>>,
     <<"width_type", VStr("pct")>>>>,
   IgnoredRow}
  \cup {<<<<c, VStr(BorderTextA)>>>> : c \in DOMAIN BorderColumns}

\* The rows tried on a table name that is no virtual table.
OtherRows == {<<<<"width", VU32(100)>>, <<"width_type", VStr("dxa")>>>>}

\* The keys a scan of "tables" shows.
TableKeys(d) == {Tables_scan_data(d)[i][1] : i \in DOMAIN Tables_scan_data(d)}

\* The keys a scan of "cell" shows for the first cell and the last but one.
CellKeys(d) ==
  LET pairs == Cell_scan_data(d)
  IN {pairs[i][1] : i \in {1, Len(pairs) - 1} \cap DOMAIN pairs}

\* The key of no element.
StaleKey == KeyStr(Sha256Hex(JNull))

\* The batches the model feeds insert_data: one entry, keyed by a live key
\* with any of the rows, or by the stale key.
Batches(keys, rows) ==
  {<<<<k, row>>>> : k \in keys, row \in rows}
  \cup {<<<<StaleKey, row>>>> : row \in OtherRows}

\* The two rows of a batch of two entries.
FirstRow == <<<<"width", VU32(100)>>, <<"width_type", VStr("dxa")>>>>
SecondRow == <<<<"width", VU32(7)>>>>

\* Batches of two entries for "tables": the first keyed by a live key, the
\* second by that key again or by a key the table has after the first.
TableBatches2(d) ==
  UNION {{<<<<k, FirstRow>>, <<k2, SecondRow>>>> :
            k2 \in {k} \cup TableKeys(Tables_insert_data(d, <<<<k, FirstRow>>>>).docx)} :
         k \in TableKeys(d)}

\* Batches of two entries for "cell", likewise.
CellBatches2(d) ==
  UNION {{<<<<k, FirstRow>>, <<k2, SecondRow>>>> :
            k2 \in {k} \cup CellKeys(Cell_insert_data(d, <<<<k, FirstRow>>>>).docx)} :
         k \in CellKeys(d)}

\* The schemas tried on insert_schema.
Schemas ==
  {Tables_fetch_all_schemas[1], Cell_fetch_all_schemas[1], Schema("x", <<>>)}

\* The row lists tried on append_data.
AppendRows == {<<>>} \cup {<<row>> : row \in OtherRows}

NoKey == [key |-> "none"]

Call(op, table_name, key, keys, rows) ==
  [op |-> op, table_name |-> table_name, key |-> key, keys |-> keys, rows |-> rows]

ReadOps ==
  {"DocxDb.scan_data", "DocxDb.fetch_data", "Tables.scan_data", "Tables.fetch_data",
   "Cell.scan_data", "Cell.fetch_data", "DocxDb.fetch_schema",
   "DocxDb.fetch_all_schemas"}

-----------------------------------------------------------------------------
(* The calls. *)

Init ==
  /\ docx \in Documents
  /\ call = Call("new", "", NoKey, <<>>, <<>>)
  /\ ret = Ok("unit")
  /\ pre = docx
  /\ repeated = FALSE
  /\ nops = 0
  /\ definitions = <<>>
  /\ func = "none"
  /\ stack = <<>>
  /\ returned = None
  /\ pruned = 0

\* A call on &Document: the document stays as it is.  After a read the model
\* goes on with that read made again, or with a call on &mut Document.
Read(c, r) ==
  /\ call.op \in ReadOps => call = c
  /\ call' = c
  /\ ret' = r
  /\ pre' = docx
  /\ repeated' = (call = c)
  /\ UNCHANGED <<docx, nops>>
  /\ UNCHANGED swvars

\* A call on &mut Document that returns r.ret and leaves r.docx.
Write(c, r) ==
  /\ call' = c
  /\ ret' = r.ret
  /\ docx' = r.docx
  /\ pre' = docx
  /\ repeated' = FALSE
  /\ UNCHANGED swvars

DbFetchSchema ==
  \E n \in TableNames :
    Read(Call("DocxDb.fetch_schema", n, NoKey, <<>>, <<>>), Ok(DocxDb_fetch_schema(n)))

DbFetchAllSchemas ==
  Read(Call("DocxDb.fetch_all_schemas", "", NoKey, <<>>, <<>>),
       Ok(DocxDb_fetch_all_schemas))

DbInsertSchema ==
  /\ nops < MaxOps
  /\ nops' = nops + 1
  /\ \E schema \in Schemas :
       Write(Call("DocxDb.insert_schema", schema.table_name, NoKey, <<>>, <<>>),
             DocxDb_insert_schema(docx, schema))

DbDeleteSchema ==
  /\ nops < MaxOps
  /\ nops' = nops + 1
  /\ \E n \in TableNames :
       Write(Call("DocxDb.delete_schema", n, NoKey, <<>>, <<>>),
             DocxDb_delete_schema(docx, n))

DbAppendData ==
  /\ nops < MaxOps
  /\ nops' = nops + 1
  /\ \E n \in TableNames, rows \in AppendRows :
       Write(Call("DocxDb.append_data", n, NoKey, <<>>, rows),
             DocxDb_append_data(docx, n, rows))

DbScan ==
  \E n \in TableNames :
    Read(Call("DocxDb.scan_data", n, NoKey, <<>>, <<>>), Ok(DocxDb_scan_data(docx, n)))

DbFetch ==
  \E n \in TableNames, k \in TableKeys(docx) \cup {StaleKey} :
    Read(Call("DocxDb.fetch_data", n, k, <<>>, <<>>), Ok(DocxDb_fetch_data(docx, n, k)))

DbInsert ==
  /\ nops < MaxOps
  /\ nops' = nops + 1
  /\ \/ \E rows \in Batches(TableKeys(docx), UpdateRows) \cup TableBatches2(docx) :
          Write(Call("DocxDb.insert_data", "tables", NoKey, <<>>, rows),
                DocxDb_insert_data(docx, "tables", rows))
     \/ \E i \in DOMAIN DocxDb_scan_data(docx, "tables") :
          LET pair == DocxDb_scan_data(docx, "tables")[i]
              rows == <<<<pair[1], RowAsUpdate(pair[2], TablesColumns)>>>>
          IN Write(Call("DocxDb.insert_data", "tables", NoKey, <<>>, rows),
                   DocxDb_insert_data(docx, "tables", rows))
     \/ \E n \in TableNames \ {"tables"},
           rows \in Batches(TableKeys(docx) \cup CellKeys(docx), OtherRows) :
          Write(Call("DocxDb.insert_data", n, NoKey, <<>>, rows),
                DocxDb_insert_data(docx, n, rows))

DbDelete ==
  /\ nops < MaxOps
  /\ nops' = nops + 1
  /\ \E n \in TableNames, keys \in {<<>>} \cup {<<k>> : k \in TableKeys(docx)} :
       Write(Call("DocxDb.delete_data", n, NoKey, keys, <<>>),
             DocxDb_delete_data(docx, n, keys))

TablesScan ==
  Read(Call("Tables.scan_data", "", NoKey, <<>>, <<>>), Ok(Tables_scan_data(docx)))

TablesFetch ==
  \E k \in TableKeys(docx) \cup {StaleKey} :
    Read(Call("Tables.fetch_data", "", k, <<>>, <<>>), Ok(Tables_fetch_data(docx, k)))

TablesInsert ==
  /\ nops < MaxOps
  /\ nops' = nops + 1
  /\ \/ \E rows \in Batches(TableKeys(docx), UpdateRows) \cup TableBatches2(docx) :
          Write(Call("Tables.insert_data", "", NoKey, <<>>, rows),
                Tables_insert_data(docx, rows))
     \/ \E i \in DOMAIN Tables_scan_data(docx) :
          LET pair == Tables_scan_data(docx)[i]
              rows == <<<<pair[1], RowAsUpdate(pair[2], TablesColumns)>>>>
          IN Write(Call("Tables.insert_data", "", NoKey, <<>>, rows),
                   Tables_insert_data(docx, rows))

CellScan ==
  Read(Call("Cell.scan_data", "", NoKey, <<>>, <<>>), Ok(Cell_scan_data(docx)))

CellFetch ==
  \E k \in CellKeys(docx) \cup {StaleKey} :
    Read(Call("Cell.fetch_data", "", k, <<>>, <<>>), Ok(Cell_fetch_data(docx, k)))

CellInsert ==
  /\ nops < MaxOps
  /\ nops' = nops + 1
  /\ \/ \E rows \in Batches(CellKeys(docx), UpdateRows) \cup CellBatches2(docx) :
          Write(Call("Cell.insert_data", "", NoKey, <<>>, rows),
                Cell_insert_data(docx, rows))
     \/ \E i \in DOMAIN Cell_scan_data(docx) :
          LET pair == Cell_scan_data(docx)[i]
              rows == <<<<pair[1], RowAsUpdate(pair[2], CellColumns)>>>>
          IN Write(Call("Cell.insert_data", "", NoKey, <<>>, rows),
                   Cell_insert_data(docx, rows))

Next ==
  \/ DbFetchSchema
  \/ DbFetchAllSchemas
  \/ DbInsertSchema
  \/ DbDeleteSchema
  \/ DbAppendData
  \/ DbScan
  \/ DbFetch
  \/ DbInsert
  \/ DbDelete
  \/ TablesScan
  \/ TablesFetch
  \/ TablesInsert
  \/ CellScan
  \/ CellFetch
  \/ CellInsert

Spec == Init /\ [][Next]_vars

-----------------------------------------------------------------------------
(* The swagger reader (src/src/swagger/mod.rs): the expansion of a          *)
(* definition into the list of return parameters and into an example value. *)
(* The two functions are recursive; stack holds the calls in progress, one  *)
(* frame per call: the name it was called with, its used_name set, where it *)
(* is (at its entry, or in the loop over the properties, at property idx),  *)
(* and what it has built so far (ps, or the object it fills).  definitions  *)
(* is the map of the document as a sequence of <<name, definition>>, and    *)
(* the properties of a definition are a sequence in the order the map is    *)
(* iterated.  The keys of a serde_json object are a set of <<key, value>>.  *)

\* The bound of the swagger model: the calls in progress at one time.
MaxDepth == 6

Property(name, type_, description, example, items, original_ref) ==
  [name |-> name, type_ |-> type_, description |-> description,
   example |-> example, items |-> items, original_ref |-> original_ref]

SchemaRef_Ref(original_ref) == [kind |-> "Ref", original_ref |-> original_ref]
SchemaRef_Primitives(type_, format) ==
  [kind |-> "Primitives", type_ |-> type_, format |-> format]
SchemaRef_Object == [kind |-> "Object"]

Definition_Object(properties) == [kind |-> "Object", properties |-> properties]
Definition_Other == [kind |-> "Other"]

DocxReturnParamInfo(name, data_type, desc) ==
  [name |-> name, data_type |-> data_type, desc |-> desc]

\* Map::insert: the value of a key is replaced.
Map_insert(m, k, v) == {kv \in m : kv[1] # k} \cup {<<k, v>>}

\* name.to_lowercase().contains("time") || ...contains("date"), for the
\* names of the definitions below.
NamesTime(name) == name \in {"createTime", "birthDate"}

gen_example_value(name, value_type, example) ==
  IF example.some THEN example.v
  ELSE CASE value_type = "integer" -> JNum(1)
         [] value_type = "boolean" -> JBool(FALSE)
         [] value_type = "string" ->
              IF NamesTime(name) THEN JStr("2025-10-13 20:26:09") ELSE JStr("string")
         [] OTHER -> JNull

\* used_name.contains(original_ref) that never finds the name.
UsedContains_never(used_name, original_ref) == FALSE

\* used_name.contains(original_ref)
UsedContains(used_name, original_ref) == original_ref \in used_name

\* The properties a call iterates: those of an object definition that has
\* properties, and none for a name that is missing or no object.
PropertiesOf(defs, original_ref) ==
  LET definition == FirstWithKey(defs, original_ref)
  IN IF definition.some /\ definition.v.kind = "Object" /\ definition.v.properties.some
       THEN definition.v.properties.v ELSE <<>>

\* A property of type array whose items name a definition.
IsArrayRef(prop) ==
  /\ prop.type_.some
  /\ prop.type_.v = "array"
  /\ prop.items.some
  /\ prop.items.v.kind = "Ref"
  /\ prop.items.v.original_ref.some

\* A property with no type that names a definition.
IsObjectRef(prop) == ~prop.type_.some /\ prop.original_ref.some

\* The definition a property makes the function call itself with.
Callee(prop) ==
  IF IsArrayRef(prop) THEN prop.items.v.original_ref.v ELSE prop.original_ref.v

\* response_by_definitions on a property that makes no call: the entries
\* pushed.
response_property(prop) ==
  IF ~prop.type_.some THEN <<>>
  ELSE IF prop.type_.v = "array"
    THEN IF prop.items.some /\ prop.items.v.kind = "Primitives"
           THEN <<DocxReturnParamInfo(
                    prop.name \o ".[]." \o unwrap_or(prop.items.v.format, ""),
                    unwrap_or(prop.items.v.type_, ""),
                    unwrap_or(prop.description, ""))>>
           ELSE <<>>
    ELSE <<DocxReturnParamInfo(prop.name, prop.type_.v,
                               unwrap_or(prop.description, ""))>>

\* response_by_definitions on what a call returned: the entries, each with
\* the name of the property in front.
response_extend(prop, pst) ==
  [i \in DOMAIN pst |->
     [pst[i] EXCEPT !.name =
        prop.name \o (IF IsArrayRef(prop) THEN ".[]." ELSE ".") \o @]]

\* fill_value_by_definitions on a property that makes no call.
fill_property(value, prop) ==
  IF ~prop.type_.some THEN value
  ELSE IF prop.type_.v = "array"
    THEN IF prop.items.some /\ prop.items.v.kind = "Primitives"
           THEN Map_insert(value, prop.name, JArr(<<>>))
           ELSE value
    ELSE Map_insert(value, prop.name,
                    gen_example_value(prop.name, prop.type_.v, prop.example))

\* fill_value_by_definitions on the object a call filled: the object, or an
\* array of it, under the name of the property.
fill_insert(value, prop, value_item) ==
  Map_insert(value, prop.name,
             IF IsArrayRef(prop) THEN JArr(<<JObj(value_item)>>) ELSE JObj(value_item))

\* A call at its entry, with the used_name it was handed.
Frame(original_ref, used_name) ==
  [original_ref |-> original_ref, used_name |-> used_name, pc |-> "entry",
   idx |-> 1, ps |-> <<>>, value |-> {}]

\* Definitions: one that names itself, two that name each other, one that
\* names itself as the items of an array, three that name each other on
\* several paths, and one with a missing name, with properties that lead
\* nowhere, beside a definition that is no object and one with no properties.
DefsSelf ==
  <<<<"Node", Definition_Object(Some(
       <<Property("id", Some("integer"), Some("key"), None, None, None),
         Property("next", None, None, None, None, Some("Node"))>>))>>>>

DefsCycle ==
  <<<<"A", Definition_Object(Some(
       <<Property("b", None, None, None, None, Some("B"))>>))>>,
    <<"B", Definition_Object(Some(
       <<Property("createTime", Some("string"), None, None, None, None),
         Property("a", None, None, None, None, Some("A"))>>))>>>>

DefsArrayCycle ==
  <<<<"Tree", Definition_Object(Some(
       <<Property("label", Some("string"), None, Some(JStr("root")), None, None),
         Property("children", Some("array"), None, None,
                  Some(SchemaRef_Ref(Some("Tree"))), None),
         Property("tags", Some("array"), Some("tags"), None,
                  Some(SchemaRef_Primitives(Some("string"), None)), None)>>))>>>>

DefsPaths ==
  <<<<"A", Definition_Object(Some(
       <<Property("b", None, None, None, None, Some("B")),
         Property("c", None, None, None, None, Some("C"))>>))>>,
    <<"B", Definition_Object(Some(
       <<Property("c", None, None, None, None, Some("C")),
         Property("x", Some("integer"), None, None, None, None)>>))>>,
    <<"C", Definition_Object(Some(
       <<Property("b", Some("array"), None, None,
                  Some(SchemaRef_Ref(Some("B"))), None),
         Property("ok", Some("boolean"), None, None, None, None)>>))>>>>

DefsMissing ==
  <<<<"Page", Definition_Object(Some(
       <<Property("data", None, None, None, None, Some("Ghost")),
         Property("list", Some("array"), None, None, None, None),
         Property("raw", Some("array"), None, None, Some(SchemaRef_Object), None),
         Property("noref", Some("array"), None, None,
                  Some(SchemaRef_Ref(None)), None),
         Property("ids", Some("array"), None, None,
                  Some(SchemaRef_Primitives(None, Some("int64"))), None),
         Property("extra", Some("object"), None, None, None, None),
         Property("blank", None, None, None, None, None),
         Property("other", None, None, None, None, Some("Other")),
         Property("bare", None, None, None, None, Some("Bare"))>>))>>,
    <<"Other", Definition_Other>>,
    <<"Bare", Definition_Object(None)>>>>

DefinitionMaps == {DefsSelf, DefsCycle, DefsArrayCycle, DefsPaths, DefsMissing}

\* The names the expansion is started with: those of the map, and "" for a
\* response schema with no originalRef.
RootNames(defs) == {defs[i][1] : i \in DOMAIN defs} \cup {""}

Funcs == {"response_by_definitions", "fill_value_by_definitions"}

\* generate_docx_info calls the two functions with HashSet::new().
InitSw ==
  /\ docx = DocHello
  /\ call = Call("new", "", NoKey, <<>>, <<>>)
  /\ ret = Ok("unit")
  /\ pre = docx
  /\ repeated = FALSE
  /\ nops = 0
  /\ definitions \in DefinitionMaps
  /\ func \in Funcs
  /\ \E root \in RootNames(definitions) : stack = <<Frame(root, {})>>
  /\ returned = None
  /\ pruned = 0

Top == stack[Len(stack)]

\* The property the loop of a frame is at.
PropertyAt(frame) == PropertiesOf(definitions, frame.original_ref)[frame.idx]

\* The top call returns ps, and leaves value in the object it was handed:
\* to generate_docx_info, or to the call below it, which goes on with its
\* next property.
Return(ps, value) ==
  IF Len(stack) = 1
    THEN /\ stack' = <<>>
         /\ returned' = Some([ps |-> ps, value |-> JObj(value)])
    ELSE LET parent == stack[Len(stack) - 1]
             prop == PropertyAt(parent)
         IN /\ stack' =
                 SubSeq(stack, 1, Len(stack) - 2) \o
                 <<[parent EXCEPT
                      !.idx = @ + 1,
                      !.ps = IF func = "response_by_definitions"
                               THEN @ \o response_extend(prop, ps) ELSE @,
                      !.value = IF func = "fill_value_by_definitions"
                                  THEN fill_insert(@, prop, value) ELSE @]>>
            /\ returned' = returned

\* The name is on the path: return at once, with nothing.
SwPruned ==
  /\ stack # <<>>
  /\ Top.pc = "entry"
  /\ UsedContains(Top.used_name, Top.original_ref)
  /\ Return(<<>>, {})
  /\ pruned' = pruned + 1
  /\ UNCHANGED <<dbvars, definitions, func>>

\* The name is not on the path: it is inserted and the loop starts.
SwEnter ==
  /\ stack # <<>>
  /\ Top.pc = "entry"
  /\ ~UsedContains(Top.used_name, Top.original_ref)
  /\ stack' = [stack EXCEPT ![Len(stack)] =
                 [Top EXCEPT !.used_name = @ \cup {Top.original_ref}, !.pc = "loop"]]
  /\ UNCHANGED <<dbvars, definitions, func, returned, pruned>>

\* One property that makes no call.
SwProperty ==
  /\ stack # <<>>
  /\ Top.pc = "loop"
  /\ Top.idx <= Len(PropertiesOf(definitions, Top.original_ref))
  /\ ~IsArrayRef(PropertyAt(Top))
  /\ ~IsObjectRef(PropertyAt(Top))
  /\ stack' = [stack EXCEPT ![Len(stack)] =
                 [Top EXCEPT
                    !.idx = @ + 1,
                    !.ps = IF func = "response_by_definitions"
                             THEN @ \o response_property(PropertyAt(Top)) ELSE @,
                    !.value = IF func = "fill_value_by_definitions"
                                THEN fill_property(@, PropertyAt(Top)) ELSE @]]
  /\ UNCHANGED <<dbvars, definitions, func, returned, pruned>>

\* One property that names a definition: the call, with a clone of
\* used_name.
SwCall ==
  /\ stack # <<>>
  /\ Top.pc = "loop"
  /\ Top.idx <= Len(PropertiesOf(definitions, Top.original_ref))
  /\ IsArrayRef(PropertyAt(Top)) \/ IsObjectRef(PropertyAt(Top))
  /\ Len(stack) < MaxDepth
  /\ stack' = Append(stack, Frame(Callee(PropertyAt(Top)), Top.used_name))
  /\ UNCHANGED <<dbvars, definitions, func, returned, pruned>>

\* The loop is over.
SwReturn ==
  /\ stack # <<>>
  /\ Top.pc = "loop"
  /\ Top.idx > Len(PropertiesOf(definitions, Top.original_ref))
  /\ Return(Top.ps, Top.value)
  /\ UNCHANGED <<dbvars, definitions, func, pruned>>

NextSw ==
  \/ SwPruned
  \/ SwEnter
  \/ SwProperty
  \/ SwCall
  \/ SwReturn

\* A call in progress goes on: the functions run on one thread and wait for
\* nothing.
SpecSwagger == InitSw /\ [][NextSw]_vars /\ WF_vars(NextSw)

-----------------------------------------------------------------------------
(* The claims. *)

RowColumns(kvs) == {kvs[i][1] : i \in DOMAIN kvs}

RowValue(kvs, col) == kvs[CHOOSE i \in DOMAIN kvs : kvs[i][1] = col][2]

\* The width type names a scan can show for a width type an update parsed.
RecognisedWidthTypes == {"dxa", "auto", "pct", "nil"}

\* The last call updated "tables": through the component or through DocxDb.
TablesUpdated ==
  \/ call.op = "Tables.insert_data"
  \/ call.op = "DocxDb.insert_data" /\ call.table_name = "tables"

\* The one row of the batch gives width and width_type, and nothing else.
WidthPairGiven ==
  /\ Len(call.rows) = 1
  /\ RowColumns(call.rows[1][2]) = {"width", "width_type"}
  /\ RowValue(call.rows[1][2], "width").t = "U32"
  /\ RowValue(call.rows[1][2], "width_type").t = "Str"
  /\ RowValue(call.rows[1][2], "width_type").v \in RecognisedWidthTypes

\* C1: when "tables" is updated with one row that gives a width w and a
\* recognised width type t under the key a scan showed for a table, the next
\* scan of "tables" shows width = w and width_type = t for that table.
C1_WidthRoundTrip ==
  \A i \in DOMAIN Tables_scan_data(pre) :
    (TablesUpdated /\ WidthPairGiven /\ call.rows[1][1] = Tables_scan_data(pre)[i][1])
    => /\ Tables_scan_data(docx)[i][2].width = RowValue(call.rows[1][2], "width")
       /\ Tables_scan_data(docx)[i][2].width_type
            = RowValue(call.rows[1][2], "width_type")
       /\ DocxDb_scan_data(docx, "tables")[i][2].width
            = RowValue(call.rows[1][2], "width")
       /\ DocxDb_scan_data(docx, "tables")[i][2].width_type
            = RowValue(call.rows[1][2], "width_type")

\* A table that showed another width and width type now shows 100 and "dxa".
C1_Witness ==
  \E i \in DOMAIN Tables_scan_data(pre) :
    /\ TablesUpdated /\ WidthPairGiven
    /\ call.rows[1][1] = Tables_scan_data(pre)[i][1]
    /\ Tables_scan_data(pre)[i][2].width # VU32(100)
    /\ Tables_scan_data(pre)[i][2].width_type # VStr("dxa")
    /\ Tables_scan_data(docx)[i][2].width = VU32(100)
    /\ Tables_scan_data(docx)[i][2].width_type = VStr("dxa")

\* The one row of the batch gives one border column, as a text that parses,
\* and nothing else.
OneBorderGiven ==
  /\ Len(call.rows) = 1
  /\ Len(call.rows[1][2]) = 1
  /\ call.rows[1][2][1][1] \in DOMAIN BorderColumns
  /\ call.rows[1][2][1][2].t = "Str"
  /\ serde_json_from_str(call.rows[1][2][1][2].v).some

BorderColumnGiven == call.rows[1][2][1][1]

\* The column value is a text that gives the border the given text gives.
ShowsBorder(value, text, position) ==
  /\ value.t = "Str"
  /\ serde_json_from_str(value.v).some
  /\ BorderFromText(value.v, position) = BorderFromText(text, position)

\* C2: after an update gives a border column of a table or of a cell as a JSON
\* text, the next scan shows that column as a text matching the JSON, and a
\* cell's content as it was.
C2_BorderRoundTrip ==
  /\ \A i \in DOMAIN Tables_scan_data(pre) :
       (/\ call.op = "Tables.insert_data" /\ OneBorderGiven
        /\ call.rows[1][1] = Tables_scan_data(pre)[i][1])
       => ShowsBorder(Tables_scan_data(docx)[i][2][BorderColumnGiven],
                      call.rows[1][2][1][2].v, BorderColumns[BorderColumnGiven])
  /\ \A j \in DOMAIN Cell_scan_data(pre) :
       (/\ call.op = "Cell.insert_data" /\ OneBorderGiven
        /\ call.rows[1][1] = Cell_scan_data(pre)[j][1])
       => /\ ShowsBorder(Cell_scan_data(docx)[j][2][BorderColumnGiven],
                         call.rows[1][2][1][2].v, BorderColumns[BorderColumnGiven])
          /\ Cell_scan_data(docx)[j][2].content = Cell_scan_data(pre)[j][2].content

TablePlaces == {i \in DOMAIN docx.children : docx.children[i].kind = "Table"}

\* The place of the k-th top-level table.
TablePlace(k) ==
  CHOOSE i \in TablePlaces : Cardinality({j \in TablePlaces : j < i}) = k - 1

\* <<i, r, c>>: cell c of row r of the table at place i.
CellPlaces ==
  UNION {UNION {{<<i, r, c>> : c \in DOMAIN docx.children[i].rows[r].cells} :
                  r \in DOMAIN docx.children[i].rows} :
           i \in TablePlaces}

\* Document order of cells: by table, then row, then cell.
Before(a, b) ==
  \/ a[1] < b[1]
  \/ a[1] = b[1] /\ a[2] < b[2]
  \/ a[1] = b[1] /\ a[2] = b[2] /\ a[3] < b[3]

\* The index of a cell in row-major document order.
CellIndex(p) == 1 + Cardinality({q \in CellPlaces : Before(q, p)})

\* C4: a scan of "tables" has one row per top-level table, in document order,
\* with the table's hash, row_number its count of rows and column_number the
\* count of cells of its first row (0 without one); a scan of "cell" has one
\* row per cell of those tables, in row-major order, with the cell's hash and
\* the hash of its table.
C4_ProjectionComplete ==
  /\ (\/ call.op = "Tables.scan_data"
      \/ call.op = "DocxDb.scan_data" /\ call.table_name = "tables")
     => /\ Len(ret.v) = Cardinality(TablePlaces)
        /\ \A k \in DOMAIN ret.v :
             LET t == docx.children[TablePlace(k)]
             IN /\ ret.v[k][1] = KeyStr(TableHash(t))
                /\ ret.v[k][2].hash = VStr(TableHash(t))
                /\ ret.v[k][2].row_number.v = Len(t.rows)
                /\ ret.v[k][2].column_number.v
                     = IF t.rows = <<>> THEN 0 ELSE Len(t.rows[1].cells)
  /\ call.op = "Cell.scan_data"
     => /\ Len(ret.v) = Cardinality(CellPlaces)
        /\ \A p \in CellPlaces :
             LET cell == docx.children[p[1]].rows[p[2]].cells[p[3]]
             IN /\ ret.v[CellIndex(p)][1] = KeyStr(CellHash(cell))
                /\ ret.v[CellIndex(p)][2].hash = VStr(CellHash(cell))
                /\ ret.v[CellIndex(p)][2].table_hash
                     = VStr(TableHash(docx.children[p[1]]))

\* A scan of "cell" of a document with one table of 2 rows of 3 cells: six
\* rows, all with the hash the scan of "tables" shows in its one row, which
\* has row_number 2 and column_number 3.
C4_Witness ==
  /\ call.op = "Cell.scan_data"
  /\ Len(Tables_scan_data(docx)) = 1
  /\ Tables_scan_data(docx)[1][2].row_number.v = 2
  /\ Tables_scan_data(docx)[1][2].column_number.v = 3
  /\ Len(ret.v) = 6
  /\ \A n \in 1..6 : ret.v[n][2].table_hash = Tables_scan_data(docx)[1][2].hash

\* The texts of a cell, paragraph by paragraph and run by run.
RunTexts(run) ==
  Join([n \in DOMAIN run.children |->
          IF run.children[n].kind = "Text" THEN run.children[n].text ELSE ""])

ParagraphTexts(paragraph) ==
  Join([n \in DOMAIN paragraph.children |->
          IF paragraph.children[n].kind = "Run"
            THEN RunTexts(paragraph.children[n]) ELSE ""])

CellTexts(cell) ==
  Join([n \in DOMAIN cell.children |->
          IF cell.children[n].kind = "Paragraph"
            THEN ParagraphTexts(cell.children[n]) ELSE ""])

\* C5: the content of a "cell" row is the texts of the text runs of the runs
\* of the paragraphs of the cell, in document order, with nothing between
\* them and nothing for any other child.
C5_ContentConcatenation ==
  call.op = "Cell.scan_data"
  => \A p \in CellPlaces :
       ret.v[CellIndex(p)][2].content
         = VStr(CellTexts(docx.children[p[1]].rows[p[2]].cells[p[3]]))

\* A cell with the runs "foo" and "bar" in one paragraph shows "foobar"; one
\* with a tab between "a" and "b" shows "ab"; one with no child shows "".
C5_Witness ==
  /\ call.op = "Cell.scan_data"
  /\ Len(ret.v) = 6
  /\ docx.children[1].rows[1].cells[1].children
       = <<Paragraph(<<Run(<<Text("foo")>>), Run(<<Text("bar")>>)>>)>>
  /\ ret.v[1][2].content = VStr("foobar")
  /\ ret.v[2][2].content = VStr("ab")
  /\ ret.v[3][2].content = VStr("xy")
  /\ ret.v[6][2].content = VStr("")

\* C6: delete_data returns an error that says it is not supported, and leaves
\* the document as it was.
C6_DeleteUnsupported ==
  call.op = "DocxDb.delete_data"
  => /\ ret = Err("[Storage] StoreMut::delete_data is not supported")
     /\ docx = pre

\* A delete on "tables" with the key of a table of the document.
C6_Witness ==
  /\ call.op = "DocxDb.delete_data"
  /\ call.table_name \in {"tables", "cell"}
  /\ \E i \in DOMAIN Tables_scan_data(docx) : call.keys = <<Tables_scan_data(docx)[i][1]>>

\* C7: a scan through DocxDb of a name that is neither "tables" nor "cell"
\* is empty.
C7_UnknownScanEmpty ==
  (call.op = "DocxDb.scan_data" /\ call.table_name \notin {"tables", "cell"})
  => ret = Ok(<<>>)

\* C8: a fetch through DocxDb of a name that is neither "tables" nor "cell"
\* returns no row, whatever the key.
C8_UnknownFetchNone ==
  (call.op = "DocxDb.fetch_data" /\ call.table_name \notin {"tables", "cell"})
  => ret = Ok(None)

\* A fetch of "x" with the key under which "tables" has a row.
C8_Witness ==
  /\ call.op = "DocxDb.fetch_data"
  /\ call.table_name = "x"
  /\ DocxDb_fetch_data(docx, "tables", call.key).some

\* C9: an insert through DocxDb of a name that is neither "tables" nor "cell"
\* returns ok and leaves the document as it was.
C9_UnknownWriteNoop ==
  (call.op = "DocxDb.insert_data" /\ call.table_name \notin {"tables", "cell"})
  => ret.ok /\ docx = pre

\* An insert into "x" keyed by the hash of a table, with a row that changes
\* that table when it is inserted into "tables".
C9_Witness ==
  /\ call.op = "DocxDb.insert_data"
  /\ call.table_name = "x"
  /\ \E i \in DOMAIN Tables_scan_data(pre) : call.rows[1][1] = Tables_scan_data(pre)[i][1]
  /\ DocxDb_insert_data(pre, "tables", call.rows).docx # pre

CellAt(d, p) == d.children[p[1]].rows[p[2]].cells[p[3]]

\* C11: when an update changes a style field of a table or of a cell, the hash
\* of that element differs from its hash before the update, and a fetch by the
\* old key returns a row only when another element has that hash.
C11_Sensitivity ==
  /\ \A i \in TablePlaces :
       docx.children[i].property # pre.children[i].property
       => /\ TableHash(docx.children[i]) # TableHash(pre.children[i])
          /\ Tables_scan_data(docx)[Cardinality({j \in TablePlaces : j <= i})][1]
               # KeyStr(TableHash(pre.children[i]))
          /\ \A fetched \in {Tables_fetch_data(docx, KeyStr(TableHash(pre.children[i]))),
                             DocxDb_fetch_data(docx, "tables",
                                               KeyStr(TableHash(pre.children[i])))} :
               fetched.some
               => \E j \in TablePlaces \ {i} :
                    TableHash(docx.children[j]) = TableHash(pre.children[i])
  /\ \A p \in CellPlaces :
       CellAt(docx, p).property # CellAt(pre, p).property
       => /\ CellHash(CellAt(docx, p)) # CellHash(CellAt(pre, p))
          /\ Cell_scan_data(docx)[CellIndex(p)][1] # KeyStr(CellHash(CellAt(pre, p)))
          /\ Cell_fetch_data(docx, KeyStr(CellHash(CellAt(pre, p)))).some
             => \E q \in CellPlaces \ {p} :
                  CellHash(CellAt(docx, q)) = CellHash(CellAt(pre, p))

\* An update changed the width of a table that a fetch by the key of the
\* update returned before; the fetch by that key now returns no row.
C11_Witness ==
  \E i \in TablePlaces :
    /\ call.op = "Tables.insert_data"
    /\ call.rows[1][1] = KeyStr(TableHash(pre.children[i]))
    /\ docx.children[i].property.width # pre.children[i].property.width
    /\ Tables_fetch_data(pre, call.rows[1][1]).some
    /\ ~Tables_fetch_data(docx, call.rows[1][1]).some

\* C12: fetch_schema of "tables" and of "cell" returns the schema of that
\* table, fetch_schema of any other name returns none, and fetch_all_schemas
\* returns the schema of "tables" and the schema of "cell" and no other.
C12_SchemaCatalog ==
  /\ call.op = "DocxDb.fetch_schema"
     => ret = Ok(CASE call.table_name = "tables" -> Some(Tables_fetch_all_schemas[1])
                   [] call.table_name = "cell" -> Some(Cell_fetch_all_schemas[1])
                   [] OTHER -> None)
  /\ call.op = "DocxDb.fetch_all_schemas"
     => /\ ret.ok
        /\ Len(ret.v) = 2
        /\ {ret.v[i] : i \in DOMAIN ret.v}
             = {Tables_fetch_all_schemas[1], Cell_fetch_all_schemas[1]}

\* The message of the error a write that is not supported returns.
NotSupported(op) ==
  CASE op = "DocxDb.insert_schema" -> "[Storage] StoreMut::insert_schema is not supported"
    [] op = "DocxDb.delete_schema" -> "[Storage] StoreMut::delete_schema is not supported"
    [] OTHER -> "[Storage] StoreMut::append_data is not supported"

\* C13: insert_schema, delete_schema and append_data return an error that
\* says the call is not supported, whatever the argument, and leave the
\* document as it was.
C13_UnsupportedWrites ==
  call.op \in {"DocxDb.insert_schema", "DocxDb.delete_schema", "DocxDb.append_data"}
  => /\ ~ret.ok
     /\ ret.v = NotSupported(call.op)
     /\ docx = pre

\* An append of a row to "tables" on a document that has a table.
C13_Witness ==
  /\ call.op = "DocxDb.append_data"
  /\ call.table_name = "tables"
  /\ Len(call.rows) = 1
  /\ TablePlaces # {}

\* C14: scan, fetch and update through DocxDb do for "cell" what the Cell
\* component does and for "tables" what the Tables component does, on the
\* same document.
C14_FacadeDispatch ==
  /\ (call.op = "DocxDb.scan_data" /\ call.table_name = "tables")
     => ret = Ok(Tables_scan_data(docx))
  /\ (call.op = "DocxDb.scan_data" /\ call.table_name = "cell")
     => ret = Ok(Cell_scan_data(docx))
  /\ (call.op = "DocxDb.fetch_data" /\ call.table_name = "tables")
     => ret = Ok(Tables_fetch_data(docx, call.key))
  /\ (call.op = "DocxDb.fetch_data" /\ call.table_name = "cell")
     => ret = Ok(Cell_fetch_data(docx, call.key))
  /\ (call.op = "DocxDb.insert_data" /\ call.table_name = "tables")
     => /\ ret = Tables_insert_data(pre, call.rows).ret
        /\ docx = Tables_insert_data(pre, call.rows).docx
  /\ (call.op = "DocxDb.insert_data" /\ call.table_name = "cell")
     => /\ ret = Cell_insert_data(pre, call.rows).ret
        /\ docx = Cell_insert_data(pre, call.rows).docx

\* The places of the pairs of a scan that have the key.
Hits(pairs, key) == {i \in DOMAIN pairs : pairs[i][1] = key}

\* The fetch returned the row of the first pair of the scan with the key, and
\* no row when the scan has no pair with the key.
FetchAgrees(pairs) ==
  /\ ret.ok
  /\ ret.v.some <=> Hits(pairs, call.key) # {}
  /\ ret.v.some
     => \E i \in Hits(pairs, call.key) :
          /\ \A j \in Hits(pairs, call.key) : i <= j
          /\ ret.v.v = pairs[i][2]

\* C15: a fetch of a name with a key returns the row of the first pair of the
\* scan of that name that has the key, and no row exactly when the scan of
\* that name has no pair with the key.
C15_FetchAgreesWithScan ==
  /\ call.op = "DocxDb.fetch_data" => FetchAgrees(DocxDb_scan_data(docx, call.table_name))
  /\ call.op = "Tables.fetch_data" => FetchAgrees(Tables_scan_data(docx))
  /\ call.op = "Cell.fetch_data" => FetchAgrees(Cell_scan_data(docx))

\* C16: within one call the hash of an element is computed again before each
\* entry of the batch is matched, so a batch of two entries does what its two
\* entries do one call after the other: once the first has changed an
\* element, a second keyed by the hash the element had before the call does
\* not match it, and one keyed by its new hash does.
C16_MidBatchRehash ==
  /\ (call.op = "Tables.insert_data" /\ Len(call.rows) = 2)
     => docx = Tables_insert_data(Tables_insert_data(pre, <<call.rows[1]>>).docx,
                                  <<call.rows[2]>>).docx
  /\ (call.op = "DocxDb.insert_data" /\ call.table_name = "tables" /\ Len(call.rows) = 2)
     => docx = DocxDb_insert_data(DocxDb_insert_data(pre, "tables", <<call.rows[1]>>).docx,
                                  "tables", <<call.rows[2]>>).docx
  /\ (call.op = "Cell.insert_data" /\ Len(call.rows) = 2)
     => docx = Cell_insert_data(Cell_insert_data(pre, <<call.rows[1]>>).docx,
                                <<call.rows[2]>>).docx

\* The cells an update left other than it found them.
ChangedCells == {p \in CellPlaces : CellAt(docx, p) # CellAt(pre, p)}

\* C17: an update of "cell" with one entry, keyed by a hash a scan showed for
\* a cell, changes one cell and no more, also in a document with equal cells.
C17_CellUpdateScoped ==
  (/\ call.op = "Cell.insert_data"
   /\ Len(call.rows) = 1
   /\ \E j \in DOMAIN Cell_scan_data(pre) : call.rows[1][1] = Cell_scan_data(pre)[j][1])
  => Cardinality(ChangedCells) <= 1

\* The one row of the batch gives the column col, and nothing else.
OnlyColumn(col) ==
  /\ Len(call.rows) = 1
  /\ Len(call.rows[1][2]) = 1
  /\ call.rows[1][2][1][1] = col

OnlyValue == call.rows[1][2][1][2]

\* The row of a scan after the update shows the width pair the claim says it
\* shows, given the row of the scan before it.
CarriedForward(before, after) ==
  /\ (OnlyColumn("width") /\ OnlyValue.t = "U32")
     => after.width = OnlyValue /\ after.width_type = before.width_type
  /\ (OnlyColumn("width_type") /\ OnlyValue.t = "Str"
      /\ OnlyValue.v \in RecognisedWidthTypes)
     => after.width_type = OnlyValue /\ after.width = before.width

\* C18: an update row that gives width only leaves the width_type a scan
\* shows as it was, and one that gives width_type only leaves the width a
\* scan shows as it was; for tables and for cells, with or without a width
\* set before.
C18_WidthCarryForward ==
  /\ \A i \in DOMAIN Tables_scan_data(pre) :
       (TablesUpdated /\ Len(call.rows) = 1
        /\ call.rows[1][1] = Tables_scan_data(pre)[i][1])
       => CarriedForward(Tables_scan_data(pre)[i][2], Tables_scan_data(docx)[i][2])
  /\ \A j \in DOMAIN Cell_scan_data(pre) :
       (call.op = "Cell.insert_data" /\ Len(call.rows) = 1
        /\ call.rows[1][1] = Cell_scan_data(pre)[j][1])
       => CarriedForward(Cell_scan_data(pre)[j][2], Cell_scan_data(docx)[j][2])

\* The texts that give an alignment.
AlignmentTexts == {"left", "center", "right"}

\* The document with the justification of every table under the key set to
\* the text.
WithJustification(d, key, text) ==
  [d EXCEPT !.children =
     [i \in DOMAIN d.children |->
        IF d.children[i].kind = "Table" /\ KeyStr(TableHash(d.children[i])) = key
          THEN [d.children[i] EXCEPT !.property.justification = text]
          ELSE d.children[i]]]

\* C19: an update of "tables" whose one row gives a justification only
\* returns ok; with a text that gives no alignment it leaves the document as
\* it was, with one that does it replaces the justification of the matching
\* table and nothing else.
C19_JustificationIgnored ==
  (TablesUpdated /\ OnlyColumn("justification") /\ OnlyValue.t = "Str")
  => /\ ret = Ok("unit")
     /\ OnlyValue.v \notin AlignmentTexts => docx = pre
     /\ OnlyValue.v \in AlignmentTexts
        => docx = WithJustification(pre, call.rows[1][1], OnlyValue.v)

\* An update with the justification "middle" under the key of a table.
C19_Witness ==
  /\ TablesUpdated /\ OnlyColumn("justification")
  /\ OnlyValue = VStr("middle")
  /\ \E i \in DOMAIN Tables_scan_data(pre) :
       /\ call.rows[1][1] = Tables_scan_data(pre)[i][1]
       /\ Tables_scan_data(docx)[i][2].justification \in {VStr("left"), VStr("center")}

\* The one row of the batch gives one border column, as a text that is no
\* JSON or a JSON that is no object.
MalformedBorderGiven ==
  /\ Len(call.rows) = 1
  /\ Len(call.rows[1][2]) = 1
  /\ call.rows[1][2][1][1] \in DOMAIN BorderColumns
  /\ OnlyValue.t = "Str"
  /\ \/ ~serde_json_from_str(OnlyValue.v).some
     \/ serde_json_from_str(OnlyValue.v).v.t # "obj"

\* C20: an update of a matching table or cell whose border text is no JSON
\* object returns ok and leaves the document as it was.
C20_MalformedBorderDropped ==
  (/\ call.op \in {"Tables.insert_data", "Cell.insert_data", "DocxDb.insert_data"}
   /\ MalformedBorderGiven)
  => ret = Ok("unit") /\ docx = pre

\* The index of the table at a place among the top-level tables.
TableIndex(i) == Cardinality({j \in TablePlaces : j <= i})

\* C21: with no update between the two scans, the table_hash of every row of
\* a scan of "cell" is the hash the scan of "tables" shows in the row of the
\* table that owns the cell, as the table is at the scan.
C21_TableHashConsistent ==
  \A p \in CellPlaces :
    Cell_scan_data(docx)[CellIndex(p)][2].table_hash
      = Tables_scan_data(docx)[TableIndex(p[1])][2].hash

\* A scan of "cell" after an update set the width of the first cell of the
\* second of three tables: its row shows the hash the second row of "tables"
\* shows now.
C21_Witness ==
  /\ call.op = "Cell.scan_data"
  /\ nops = 1
  /\ Cardinality(TablePlaces) = 3
  /\ ret.v[1][2].width = VU32(100)
  /\ ret.v[1][2].table_hash = Tables_scan_data(docx)[2][2].hash
  /\ ret.v[1][2].table_hash # Tables_scan_data(docx)[1][2].hash

\* The border columns of a row are null where the bag has no border and a
\* value where it has one.
BordersShown(row, borders) ==
  \A c \in DOMAIN BorderColumns :
    (row[c] = VNull) <=> (~borders.some \/ ~borders.v[BorderColumns[c]].some)

\* C22: a scan shows width 0 and width_type "" for an element whose bag has
\* no width, and each border column as null when the bag has no border at
\* that position and as a value when it has one.
C22_DefaultAsymmetry ==
  /\ \A i \in TablePlaces :
       BordersShown(Tables_scan_data(docx)[TableIndex(i)][2],
                    Some(docx.children[i].property.borders))
  /\ \A p \in CellPlaces :
       LET row == Cell_scan_data(docx)[CellIndex(p)][2]
       IN /\ ~CellAt(docx, p).property.width.some
             => row.width = VU32(0) /\ row.width_type = VStr("")
          /\ BordersShown(row, CellAt(docx, p).property.borders)

\* The one entry of the batch is the pair i of the scan, row and key, as
\* the scan gave it.
WrittenBack(pairs, columns, i) ==
  /\ Len(call.rows) = 1
  /\ call.rows[1][1] = pairs[i][1]
  /\ Len(call.rows[1][2]) = Len(columns)
  /\ \A n \in DOMAIN columns :
       /\ call.rows[1][2][n][1] = columns[n]
       /\ call.rows[1][2][n][2].t = pairs[i][2][columns[n]].t
       /\ call.rows[1][2][n][2] = pairs[i][2][columns[n]]

\* C23: an update with a pair of a scan, unchanged, leaves the document as it
\* was.
C23_WriteBackIdentity ==
  /\ (TablesUpdated /\ \E i \in DOMAIN Tables_scan_data(pre) :
                         WrittenBack(Tables_scan_data(pre), TablesColumns, i))
     => docx = pre
  /\ (call.op = "Cell.insert_data"
      /\ \E j \in DOMAIN Cell_scan_data(pre) :
           WrittenBack(Cell_scan_data(pre), CellColumns, j))
     => docx = pre

InsertOps == {"Tables.insert_data", "Cell.insert_data", "DocxDb.insert_data"}

\* The keys of the entries of the batch.
BatchKeys == {call.rows[n][1] : n \in DOMAIN call.rows}

\* C24: insert_data returns ok and changes no element but those whose hash is
\* the key of an entry of the batch: every other table and cell, and every
\* child that is no table, is as it was, and with no matching key so is the
\* whole document.
C24_OnlyMatchingModified ==
  call.op \in InsertOps
  => /\ ret = Ok("unit")
     /\ DOMAIN docx.children = DOMAIN pre.children
     /\ \A i \in DOMAIN pre.children :
          IF pre.children[i].kind # "Table" THEN docx.children[i] = pre.children[i]
          ELSE /\ KeyStr(TableHash(pre.children[i])) \notin BatchKeys
                  => docx.children[i].property = pre.children[i].property
               /\ call.op = "Cell.insert_data"
                  => docx.children[i].property = pre.children[i].property
               /\ call.op # "Cell.insert_data"
                  => docx.children[i].rows = pre.children[i].rows
     /\ \A p \in CellPlaces :
          KeyStr(CellHash(CellAt(pre, p))) \notin BatchKeys
          => CellAt(docx, p) = CellAt(pre, p)
     /\ (/\ \A i \in TablePlaces : KeyStr(TableHash(pre.children[i])) \notin BatchKeys
         /\ \A p \in CellPlaces : KeyStr(CellHash(CellAt(pre, p))) \notin BatchKeys)
        => docx = pre

\* An update of "cell" that changed a cell and left another cell as it was.
C24_Witness ==
  /\ call.op = "Cell.insert_data"
  /\ ChangedCells # {}
  /\ ChangedCells # CellPlaces
  /\ \A p \in ChangedCells : KeyStr(CellHash(CellAt(pre, p))) \in BatchKeys

\* C25: an update leaves the tables and cells in number and order, the rows
\* and cells of every table, and the children of every cell as they were, so
\* row_number, column_number and content are as before; a row with no style
\* column changes nothing.
C25_StructurePreserved ==
  /\ [i \in DOMAIN docx.children |-> docx.children[i].kind]
       = [i \in DOMAIN pre.children |-> pre.children[i].kind]
  /\ Len(Tables_scan_data(docx)) = Len(Tables_scan_data(pre))
  /\ \A k \in DOMAIN Tables_scan_data(pre) :
       /\ Tables_scan_data(docx)[k][2].row_number = Tables_scan_data(pre)[k][2].row_number
       /\ Tables_scan_data(docx)[k][2].column_number
            = Tables_scan_data(pre)[k][2].column_number
  /\ Len(Cell_scan_data(docx)) = Len(Cell_scan_data(pre))
  /\ \A j \in DOMAIN Cell_scan_data(pre) :
       Cell_scan_data(docx)[j][2].content = Cell_scan_data(pre)[j][2].content
  /\ \A p \in CellPlaces : CellAt(docx, p).children = CellAt(pre, p).children
  /\ (call.op \in InsertOps /\ Len(call.rows) = 1 /\ Len(call.rows[1][2]) = Len(IgnoredRow)
      /\ \A n \in DOMAIN IgnoredRow : call.rows[1][2][n][1] = IgnoredRow[n][1])
     => docx = pre

\* An update of a cell under its key with a row of content, hash,
\* row_number and the like: the cell reads as before.
C25_Witness ==
  /\ call.op = "Cell.insert_data"
  /\ Len(call.rows) = 1
  /\ Len(call.rows[1][2]) = Len(IgnoredRow)
  /\ call.rows[1][2][5] = <<"content", VStr("changed")>>
  /\ \E j \in DOMAIN Cell_scan_data(pre) :
       /\ call.rows[1][1] = Cell_scan_data(pre)[j][1]
       /\ Cell_scan_data(docx)[j][2].content \in {VStr("hello"), VStr("foobar"), VStr("a")}

\* The orders in which the columns of a row can be iterated.
RowOrders(row) ==
  {[i \in DOMAIN row |-> row[f[i]]] : f \in Permutations(DOMAIN row)}

\* The call made again on the document as it was before, with a batch.
InsertAgain(rows) ==
  CASE call.op = "Tables.insert_data" -> Tables_insert_data(pre, rows).docx
    [] call.op = "Cell.insert_data" -> Cell_insert_data(pre, rows).docx
    [] OTHER -> DocxDb_insert_data(pre, call.table_name, rows).docx

\* C26: an update with one row of two or three columns leaves the document
\* in the same state for every order in which the columns of the row are
\* iterated.
C26_ColumnOrderIndependent ==
  (call.op \in InsertOps /\ Len(call.rows) = 1 /\ Len(call.rows[1][2]) \in {2, 3})
  => \A order \in RowOrders(call.rows[1][2]) :
       InsertAgain(<<<<call.rows[1][1], order>>>>) = docx

\* An update of a cell with width 7, a top border and width_type "pct", under
\* the key of the cell: the cell ends with width 7 in pct and the border.
C26_Witness ==
  /\ call.op = "Cell.insert_data"
  /\ Len(call.rows) = 1
  /\ RowColumns(call.rows[1][2]) = {"width", "borders_top", "width_type"}
  /\ \E p \in ChangedCells :
       /\ CellAt(docx, p).property.width = Some([width |-> 7, width_type |-> "Pct"])
       /\ CellAt(docx, p).property.borders.v["top"].some

\* The border a text stands for: the new border of the position, with the
\* color, the size and the style the text gives in the right type.
ExpectedBorder(text, position) ==
  CASE text = BorderTextA ->
         [border_type |-> "Single", size |-> 50, color |-> "ff0000",
          position |-> position, space |-> 0]
    [] text = BorderTextB ->
         [border_type |-> "Dashed", size |-> 2, color |-> "000000",
          position |-> position, space |-> 0]
    [] OTHER ->
         [border_type |-> "Single", size |-> 2, color |-> "000000",
          position |-> position, space |-> 0]

\* C27: after an update of one border column of a table or a cell with a
\* text that is JSON, the border of every matching element at that position
\* is the new border with the fields of the text, whatever it was before.
C27_BorderReplaced ==
  (OneBorderGiven /\ call.op \in {"Tables.insert_data", "Cell.insert_data"})
  => LET position == BorderColumns[BorderColumnGiven]
         expected == Some(ExpectedBorder(call.rows[1][2][1][2].v, position))
     IN /\ call.op = "Tables.insert_data"
           => \A i \in TablePlaces :
                KeyStr(TableHash(pre.children[i])) = call.rows[1][1]
                => docx.children[i].property.borders[position] = expected
        /\ call.op = "Cell.insert_data"
           => \A p \in CellPlaces :
                KeyStr(CellHash(CellAt(pre, p))) = call.rows[1][1]
                => /\ CellAt(docx, p).property.borders.some
                   /\ CellAt(docx, p).property.borders.v[position] = expected

\* A cell with a left border of size 4 updated with a left border text that
\* gives a style and no usable size: the border is dashed, of size 2.
C27_Witness ==
  /\ call.op = "Cell.insert_data"
  /\ OneBorderGiven
  /\ BorderColumnGiven = "borders_left"
  /\ \E p \in ChangedCells :
       /\ CellAt(pre, p).property.borders.some
       /\ CellAt(pre, p).property.borders.v["left"].some
       /\ CellAt(pre, p).property.borders.v["left"].v.size = 4
       /\ CellAt(docx, p).property.borders.v["left"].v.size = 2
       /\ CellAt(docx, p).property.borders.v["left"].v.border_type = "Dashed"

\* A row has the columns of a schema and no other, no null where the schema
\* allows none, and values of the declared types.
Conforms(row, schema) ==
  /\ DOMAIN row = {schema.column_defs[n].name : n \in DOMAIN schema.column_defs}
  /\ \A n \in DOMAIN schema.column_defs :
       LET def == schema.column_defs[n]
       IN def.name \in DOMAIN row
          => /\ ~def.nullable => row[def.name].t # "Null"
             /\ def.data_type = "Uint32" => row[def.name].t \in {"U32", "Null"}
             /\ def.data_type = "Text" => row[def.name].t \in {"Str", "Null"}

\* C28: every row of a scan of "tables" or "cell" conforms to the schema of
\* its table.
C28_RowsConformToSchema ==
  /\ \A k \in DOMAIN Tables_scan_data(docx) :
       Conforms(Tables_scan_data(docx)[k][2], Tables_fetch_all_schemas[1])
  /\ \A j \in DOMAIN Cell_scan_data(docx) :
       Conforms(Cell_scan_data(docx)[j][2], Cell_fetch_all_schemas[1])

\* The cells an update of "cell" gave another property.
RestyledCells ==
  {p \in CellPlaces : CellAt(docx, p).property # CellAt(pre, p).property}

\* C29: after an update of "cell" changed the property of a cell, the table
\* that owns the cell has another hash than before: the earlier key and the
\* earlier table_hash are not the key of that table, do not fetch its row,
\* and an update of "tables" under the earlier key leaves it alone.
C29_CellUpdateInvalidatesTableKey ==
  call.op = "Cell.insert_data"
  => \A p \in RestyledCells :
       LET old == Tables_scan_data(pre)[TableIndex(p[1])]
           new == Tables_scan_data(docx)[TableIndex(p[1])]
       IN /\ new[1] # old[1]
          /\ new[2].hash # old[2].hash
          /\ new[2].hash # Cell_scan_data(pre)[CellIndex(p)][2].table_hash
          /\ Tables_fetch_data(docx, old[1]) # Some(new[2])
          /\ Tables_insert_data(docx, <<<<old[1], FirstRow>>>>).docx.children[p[1]]
               = docx.children[p[1]]

\* An update of "cell" gave a cell a top border; the key its table had
\* before fetches nothing from "tables" now.
C29_Witness ==
  /\ call.op = "Cell.insert_data"
  /\ RowColumns(call.rows[1][2]) = {"borders_top"}
  /\ RestyledCells # {}
  /\ \A p \in RestyledCells :
       Tables_fetch_data(docx, Tables_scan_data(pre)[TableIndex(p[1])][1]) = None

\* A call that finds its name on the path leaves the call below it with the
\* entries it had, and with an empty object, or an array of one, under the
\* name of the property.
PrunedContributesNothing ==
  (stack # <<>> /\ Top.pc = "entry" /\ Top.original_ref \in Top.used_name)
  => /\ Len(stack) > 1
     /\ Len(stack') = Len(stack) - 1
     /\ LET parent == stack[Len(stack) - 1]
            prop == PropertyAt(parent)
        IN /\ stack'[Len(stack')].ps = parent.ps
           /\ func = "response_by_definitions" => stack'[Len(stack')].value = parent.value
           /\ func = "fill_value_by_definitions"
              => stack'[Len(stack')].value =
                   Map_insert(parent.value, prop.name,
                              IF IsArrayRef(prop) THEN JArr(<<JObj({})>>) ELSE JObj({}))

\* C30: response_by_definitions and fill_value_by_definitions return for
\* every definitions map, also one whose definitions name themselves or each
\* other through objects or the items of arrays; the calls in progress never
\* reach the bound, and a name that is on the path contributes nothing.
C30_ExpansionTerminates ==
  /\ <>(stack = <<>> /\ returned.some)
  /\ [](Len(stack) < MaxDepth)
  /\ [][PrunedContributesNothing]_vars

\* The example value of a definition that names itself has returned: the
\* inner object was left empty.
C30_Witness ==
  /\ func = "fill_value_by_definitions"
  /\ definitions = DefsSelf
  /\ stack = <<>>
  /\ pruned = 1
  /\ returned = Some([ps |-> <<>>,
                      value |-> JObj({<<"id", JNum(1)>>, <<"next", JObj({})>>})])

====
